---- MODULE Spec2Model ----
(***************************************************************************)
(* Model of the polyglot code translator: chunk_code.py (call graph,       *)
(* clustering by strongly connected components, structural split, budget   *)
(* split, assembly) and the two pipelines of pipeline.py that consume the  *)
(* chunk sequence.                                                         *)
(*                                                                         *)
(* A text (a Python str) is modelled by what str.split("\n") gives: a      *)
(* non-empty sequence of lines; the empty string is <<E>>.  A line is the  *)
(* pair <<d, n>>: line n of the d-th top-level statement of the source.    *)
(* Lines with d = 0 are not part of any statement: E is the empty line,    *)
(* WS a line of white space, COMMENT a comment line.                       *)
(***************************************************************************)
EXTENDS Integers, Sequences, FiniteSets, TLC

\* ------------------------------------------------------------------ bounds
\* The longest source: its number of top-level statements.
MaxDecls == 2
\* The longest chunk sequence handed to a pipeline.
MaxChunks == 6

\* ------------------------------------------------- constants of the program
MAX_TOKENS == 4000
APPROX_CHARS_PER_TOKEN == 4
\* max_lines, the default of split_large_function
MAX_LINES == 50
\* the threshold of chunk_code on len(full_code.splitlines())
CLUSTER_LINES == 100
\* max_workers of the ThreadPoolExecutor
MAX_WORKERS == 5

\* -------------------------------------------------------------- the inputs
None == "None"
E == <<0, 0>>
WS == <<0, 1>>
COMMENT == <<0, 2>>

Names == {"a", "b"}
Other(nm) == IF nm = "a" THEN "b" ELSE "a"

\* Syntax below a top-level statement, in the order ast.NodeVisitor visits it:
\* a call by simple name, a call whose callee is no simple name, a nested def.
Call(id) == [t |-> "call", id |-> id, body |-> <<>>]
AttrCall == [t |-> "attr", id |-> "", body |-> <<>>]
Def(id, body) == [t |-> "def", id |-> id, body |-> body]

\* The layouts of a statement's source span: its lines, their lengths in
\* characters, and which lines start (after white space) with one of
\* 'if ', 'for ', 'while ', 'try', 'except', 'def '.
NLines(layout) ==
  CASE layout = "S" -> 1
    [] layout = "H1" -> 1
    [] layout = "B3" -> 3
    [] layout = "F100" -> CLUSTER_LINES
    [] layout = "F101" -> CLUSTER_LINES + 1

LayoutLineLen(layout) ==
  CASE layout = "H1" -> MAX_TOKENS * APPROX_CHARS_PER_TOKEN + 1
    [] layout = "B3" -> (MAX_TOKENS * APPROX_CHARS_PER_TOKEN) \div 2 - 1
    [] OTHER -> 10

LayoutKeyword(layout, kind, n) ==
  \/ kind = "func" /\ n = 1
  \/ layout = "F100" /\ n = MAX_LINES + 10
  \/ layout = "F101" /\ n \in {MAX_LINES, MAX_LINES + 1, CLUSTER_LINES + 1}

FuncStmt(nm, body, layout) ==
  [kind |-> "func", name |-> nm, body |-> body, layout |-> layout]
OtherStmt(body, layout) ==
  [kind |-> "other", name |-> "", body |-> body, layout |-> layout]

\* Small statements with every shape of call and nesting.
GraphBodies ==
  { <<>>, <<Call("a")>>, <<Call("b")>>, <<Call("ext")>>, <<AttrCall>>,
    <<Def("n", <<Call("b")>>), Call("a")>> }
GraphStmts ==
  {FuncStmt(nm, body, "S") : nm \in Names, body \in GraphBodies}
    \cup {OtherStmt(body, "S") : body \in {<<>>, <<Call("b")>>}}

\* Statements at the line and character thresholds.
LayoutStmts ==
  {FuncStmt(nm, body, lay) : nm \in Names,
                             body \in {<<>>}, lay \in {"F100", "F101", "B3"}}
    \cup {FuncStmt(nm, <<Call(Other(nm))>>, lay) :
             nm \in Names, lay \in {"F100", "F101", "B3"}}
    \cup {OtherStmt(<<>>, lay) : lay \in {"S", "H1", "B3"}}

SeqsUpTo(S, n) == UNION {[1..k -> S] : k \in 0..n}

\* A source: its top-level statements (tree.body) and the text that follows
\* the last of them (nothing, white space or a comment).
Sources ==
  {[stmts |-> ss, trail |-> <<>>] :
      ss \in (SeqsUpTo(GraphStmts, MaxDecls) \cup SeqsUpTo(LayoutStmts, MaxDecls))}
    \cup {[stmts |-> ss, trail |-> tr] :
            ss \in SeqsUpTo(GraphStmts, 1), tr \in {<<WS>>, <<COMMENT>>}}

\* ------------------------------------------------------------------- text
Last(s) == s[Len(s)]
Front(s) == SubSeq(s, 1, Len(s) - 1)

LineLen(src, line) ==
  IF line[1] = 0
  THEN (CASE line = E -> 0 [] line = WS -> 2 [] OTHER -> 3)
  ELSE LayoutLineLen(src.stmts[line[1]].layout)

\* A line that str.strip() removes at either end of a text.
IsBlankLine(line) == line \in {E, WS}

\* line.strip().startswith(('if ', 'for ', 'while ', 'try', 'except', 'def '))
IsKeywordLine(src, line) ==
  /\ line[1] # 0
  /\ LayoutKeyword(src.stmts[line[1]].layout, src.stmts[line[1]].kind, line[2])

\* str.splitlines(): no line for the empty string, none after a final newline.
SplitLines(s) == IF Last(s) = E THEN Front(s) ELSE s

\* "\n".join(lines)
Join(lines) == IF lines = <<>> THEN <<E>> ELSE lines

\* s + t.  Every concatenation of chunk_code appends at a line boundary: s is
\* empty or ends with a newline.
StrCat(s, t) ==
  IF Last(s) = E THEN Front(s) \o t
  ELSE IF t[1] = E THEN s \o Tail(t)
  ELSE s \o t

\* str.strip()
Strip(s) ==
  LET keep == {i \in 1..Len(s) : ~IsBlankLine(s[i])}
  IN IF keep = {} THEN <<E>>
     ELSE LET lo == CHOOSE i \in keep : \A j \in keep : i <= j
              hi == CHOOSE i \in keep : \A j \in keep : j <= i
          IN SubSeq(s, lo, hi)

\* The characters of the lines of s that belong to statements 1..d; all the
\* lines of one statement are equally long.
RECURSIVE StmtChars(_, _, _)
StmtChars(src, s, d) ==
  IF d = 0 THEN 0
  ELSE Cardinality({i \in DOMAIN s : s[i][1] = d}) * LayoutLineLen(src.stmts[d].layout)
         + StmtChars(src, s, d - 1)

\* len(s): the characters of the lines and the newlines between them.
CharLen(src, s) ==
  StmtChars(src, s, Len(src.stmts))
    + Cardinality({i \in DOMAIN s : s[i] = WS}) * LineLen(src, WS)
    + Cardinality({i \in DOMAIN s : s[i] = COMMENT}) * LineLen(src, COMMENT)
    + Len(s) - 1

\* ast.get_source_segment(source, node) of the d-th top-level statement
GetSourceSegment(src, d) == [n \in 1..NLines(src.stmts[d].layout) |-> <<d, n>>]

RECURSIVE StmtsText(_, _)
StmtsText(src, d) ==
  IF d = 0 THEN <<>>
  ELSE IF d = 1 THEN GetSourceSegment(src, 1)
  ELSE StmtsText(src, d - 1) \o <<E>> \o GetSourceSegment(src, d)

\* The source text: the statements, one blank line between two of them, the
\* trailing text, a final newline.
SourceText(src) == StmtsText(src, Len(src.stmts)) \o src.trail \o <<E>>

\* ------------------------------------------------- DependencyGraphBuilder
RECURSIVE Visit(_, _), GenericVisit(_, _, _)
\* Visit with a visit_FunctionDef that does not add the function's node.
VisitNoAddNode(tok, st) ==
  CASE tok.t = "def" ->
         GenericVisit(tok.body, 1,
                      [cur |-> tok.id, nodes |-> st.nodes, edges |-> st.edges])
    [] tok.t = "call" ->
         GenericVisit(tok.body, 1,
                      IF st.cur # None
                      THEN [cur |-> st.cur,
                            nodes |-> st.nodes \cup {st.cur, tok.id},
                            edges |-> st.edges \cup {<<st.cur, tok.id>>}]
                      ELSE st)
    [] OTHER -> GenericVisit(tok.body, 1, st)

\* NodeVisitor.visit: visit_FunctionDef, visit_Call, or generic_visit.
Visit(tok, st) ==
  CASE tok.t = "def" ->
         GenericVisit(tok.body, 1,
                      [cur |-> tok.id, nodes |-> st.nodes \cup {tok.id},
                       edges |-> st.edges])
    [] tok.t = "call" ->
         GenericVisit(tok.body, 1,
                      IF st.cur # None
                      THEN [cur |-> st.cur,
                            nodes |-> st.nodes \cup {st.cur, tok.id},
                            edges |-> st.edges \cup {<<st.cur, tok.id>>}]
                      ELSE st)
    [] OTHER -> GenericVisit(tok.body, 1, st)

\* generic_visit: the children in source order.
GenericVisit(toks, i, st) ==
  IF i > Len(toks) THEN st ELSE GenericVisit(toks, i + 1, Visit(toks[i], st))

\* A top-level statement as the node the visitor meets.
StmtNode(stmt) ==
  IF stmt.kind = "func" THEN Def(stmt.name, stmt.body)
  ELSE [t |-> "stmt", id |-> "", body |-> stmt.body]

\* -------------------------------------------- strongly connected components
RECURSIVE ReachFrom(_, _, _)
ReachFrom(set, edges, k) ==
  IF k = 0 THEN set
  ELSE ReachFrom(set \cup {e[2] : e \in {x \in edges : x[1] \in set}}, edges, k - 1)

Reach(n, g) == ReachFrom({n}, g.edges, Cardinality(g.nodes))

\* Components that take what a node reaches, not what also reaches it back.
ComponentsReachOnly(g) == {Reach(n, g) : n \in g.nodes}

\* nx.strongly_connected_components(graph), as a set
Components(g) ==
  {{m \in g.nodes : m \in Reach(n, g) /\ n \in Reach(m, g)} : n \in g.nodes}

\* The orders in which a set can be iterated.
Orders(S) ==
  {f \in [1..Cardinality(S) -> S] : \A i, j \in DOMAIN f : f[i] = f[j] => i = j}

\* func_nodes = {node.name: node for node in tree.body if FunctionDef}: the
\* index of the last top-level definition of each name.
FuncNodes(src) ==
  LET defs(nm) == {d \in 1..Len(src.stmts) :
                     src.stmts[d].kind = "func" /\ src.stmts[d].name = nm}
      names == {src.stmts[d].name : d \in {i \in 1..Len(src.stmts) :
                                             src.stmts[i].kind = "func"}}
  IN [nm \in names |-> CHOOSE d \in defs(nm) : \A x \in defs(nm) : x <= d]

\* ---------------------------------------------------- split_large_function
\* SplitLoop that flushes a full buffer at any line, keyword or not.
RECURSIVE SplitLoopAnyLine(_, _, _, _)
SplitLoopAnyLine(src, lines, start, out) ==
  IF start + MAX_LINES - 1 > Len(lines)
  THEN (IF start <= Len(lines)
        THEN Append(out, Join(SubSeq(lines, start, Len(lines)))) ELSE out)
  ELSE SplitLoopAnyLine(src, lines, start + MAX_LINES,
                        Append(out, Join(SubSeq(lines, start, start + MAX_LINES - 1))))

\* The loop of lines 29-35, one flush at a time: the buffer that starts at
\* line `start` is flushed at the first keyword line that makes it max_lines
\* long or longer; what is left at the end is the last piece.
RECURSIVE SplitLoop(_, _, _, _)
SplitLoop(src, lines, start, out) ==
  LET flush == {i \in start..Len(lines) :
                  IsKeywordLine(src, lines[i]) /\ i - start + 1 >= MAX_LINES}
  IN IF flush = {}
     THEN (IF start <= Len(lines)
           THEN Append(out, Join(SubSeq(lines, start, Len(lines)))) ELSE out)
     ELSE LET i == CHOOSE x \in flush : \A y \in flush : x <= y
          IN SplitLoop(src, lines, i + 1, Append(out, Join(SubSeq(lines, start, i))))

split_large_function(src, d) ==
  LET code == GetSourceSegment(src, d)
      lines == SplitLines(code)
  IN IF Len(lines) <= MAX_LINES THEN <<code>>
     ELSE SplitLoop(src, lines, 1, <<>>)

\* ----------------------------------------------- split_large_chunk_by_token
\* MustFlush that tests the buffer before the line is counted.
MustFlushLate(buffer, buffer_len, line_len, max_chars) ==
  buffer_len > max_chars /\ buffer # <<>>

\* buffer_len + line_len > max_chars and buffer
MustFlush(buffer, buffer_len, line_len, max_chars) ==
  buffer_len + line_len > max_chars /\ buffer # <<>>

RECURSIVE TokenLoop(_, _, _, _, _, _, _)
TokenLoop(src, lines, i, buffer, buffer_len, out, max_chars) ==
  IF i > Len(lines) THEN (IF buffer # <<>> THEN Append(out, Join(buffer)) ELSE out)
  ELSE LET line_len == LineLen(src, lines[i]) + 1
       IN IF MustFlush(buffer, buffer_len, line_len, max_chars)
          THEN TokenLoop(src, lines, i + 1, <<lines[i]>>, line_len,
                         Append(out, Join(buffer)), max_chars)
          ELSE TokenLoop(src, lines, i + 1, Append(buffer, lines[i]),
                         buffer_len + line_len, out, max_chars)

split_large_chunk_by_token(src, chunk) ==
  TokenLoop(src, SplitLines(chunk), 1, <<>>, 0, <<>>,
            MAX_TOKENS * APPROX_CHARS_PER_TOKEN)

\* ------------------------------------------------------ chunk_code: state
VARIABLES
  source,            \* the argument of chunk_code
  pc,                \* where chunk_code is
  idx,               \* the position of the running loop
  graph,             \* builder.graph: [nodes, edges]
  current_function,  \* builder.current_function
  func_nodes,        \* name -> index of its top-level definition
  clusters,          \* list(nx.strongly_connected_components(graph))
  full_code,         \* full_code of the cluster handled last
  branch,            \* which branch the cluster handled last took
  pieces,            \* what split_large_function returned for its members
  chunks,
  final_chunks

cvars == <<source, pc, idx, graph, current_function, func_nodes, clusters,
           full_code, branch, pieces, chunks, final_chunks>>

InitChunker ==
  /\ source \in Sources
  /\ pc = "visit"
  /\ idx = 1
  /\ graph = [nodes |-> {}, edges |-> {}]
  /\ current_function = None
  /\ func_nodes = <<>>
  /\ clusters = <<>>
  /\ full_code = <<E>>
  /\ branch = "none"
  /\ pieces = <<>>
  /\ chunks = <<>>
  /\ final_chunks = <<>>

\* builder.visit(tree), one top-level statement at a time.
VisitStmt ==
  /\ pc = "visit"
  /\ idx <= Len(source.stmts)
  /\ LET st == Visit(StmtNode(source.stmts[idx]),
                     [cur |-> current_function, nodes |-> graph.nodes,
                      edges |-> graph.edges])
     IN /\ graph' = [nodes |-> st.nodes, edges |-> st.edges]
        /\ current_function' = st.cur
  /\ idx' = idx + 1
  /\ UNCHANGED <<source, pc, func_nodes, clusters, full_code, branch, pieces, chunks,
                 final_chunks>>

\* func_nodes and clusters (lines 46 and 49); the library's order of the
\* components is not specified.
ComputeClusters ==
  /\ pc = "visit"
  /\ idx > Len(source.stmts)
  /\ func_nodes' = FuncNodes(source)
  /\ clusters' \in Orders(Components(graph))
  /\ pc' = "clusters"
  /\ idx' = 1
  /\ UNCHANGED <<source, graph, current_function, full_code, branch, pieces, chunks,
                 final_chunks>>

\* The first loop over the cluster: full_code.
RECURSIVE Render(_, _, _, _)
Render(src, fn, order, i) ==
  IF i = 0 THEN <<E>>
  ELSE LET prev == Render(src, fn, order, i - 1)
       IN IF order[i] \in DOMAIN fn
          THEN StrCat(prev, GetSourceSegment(src, fn[order[i]]) \o <<E, E>>)
          ELSE prev

\* The second loop over the cluster: split_large_function of each member.
RECURSIVE SplitMembers(_, _, _, _)
SplitMembers(src, fn, order, i) ==
  IF i = 0 THEN <<>>
  ELSE SplitMembers(src, fn, order, i - 1)
         \o (IF order[i] \in DOMAIN fn
             THEN split_large_function(src, fn[order[i]]) ELSE <<>>)

\* The calls of split_large_function in that loop: the statement and the
\* pieces returned, call after call.
RECURSIVE SplitCalls(_, _, _, _)
SplitCalls(src, fn, order, i) ==
  IF i = 0 THEN <<>>
  ELSE SplitCalls(src, fn, order, i - 1)
         \o (IF order[i] \in DOMAIN fn
             THEN <<[d |-> fn[order[i]], out |-> split_large_function(src, fn[order[i]])]>>
             ELSE <<>>)

\* len(full_code.splitlines()) > 100
ClusterTooLong(fc) == Len(SplitLines(fc)) > CLUSTER_LINES

\* MergedChunk without the strip.
MergedChunkRaw(fc) == fc

\* full_code.strip(), the chunk of a cluster that is not split
MergedChunk(fc) == Strip(fc)

\* One iteration of "for cluster in clusters"; a set is iterated in an order
\* that depends on the hashes of its members.
ProcessCluster ==
  /\ pc = "clusters"
  /\ idx <= Len(clusters)
  /\ \E order \in Orders(clusters[idx]) :
       LET fc == Render(source, func_nodes, order, Len(order))
       IN /\ full_code' = fc
          /\ IF ClusterTooLong(fc)
             THEN /\ chunks' = chunks \o SplitMembers(source, func_nodes, order, Len(order))
                  /\ pieces' = SplitCalls(source, func_nodes, order, Len(order))
                  /\ branch' = "split"
             ELSE /\ chunks' = Append(chunks, MergedChunk(fc))
                  /\ pieces' = <<>>
                  /\ branch' = "merged"
  /\ idx' = idx + 1
  /\ UNCHANGED <<source, pc, graph, current_function, func_nodes, clusters,
                 final_chunks>>

\* global_code of lines 69-72
RECURSIVE GlobalCode(_, _)
GlobalCode(src, d) ==
  IF d = 0 THEN <<E>>
  ELSE IF src.stmts[d].kind # "func"
       THEN StrCat(GlobalCode(src, d - 1), GetSourceSegment(src, d) \o <<E, E>>)
       ELSE GlobalCode(src, d - 1)

\* InsertGlobal that appends.
InsertGlobalLast(cs, text) == cs \o <<text>>

\* chunks.insert(0, global_code.strip())
InsertGlobal(cs, text) == <<text>> \o cs

\* Fallback that is missing.
FallbackNone(src, cs) == cs

\* if not chunks: chunks = [source.strip()]
Fallback(src, cs) == IF cs = <<>> THEN <<Strip(SourceText(src))>> ELSE cs

\* Lines 68-79: the module-level chunk, then the fallback.
HandleGlobal ==
  /\ pc = "clusters"
  /\ idx > Len(clusters)
  /\ LET global_code == GlobalCode(source, Len(source.stmts))
         withGlobal == IF Strip(global_code) # <<E>>
                       THEN InsertGlobal(chunks, Strip(global_code))
                       ELSE chunks
     IN chunks' = Fallback(source, withGlobal)
  /\ pc' = "budget"
  /\ idx' = 1
  /\ UNCHANGED <<source, graph, current_function, func_nodes, clusters,
                 full_code, branch, pieces, final_chunks>>

\* len(c) > MAX_TOKENS * APPROX_CHARS_PER_TOKEN
OverBudget(src, c) == CharLen(src, c) > MAX_TOKENS * APPROX_CHARS_PER_TOKEN

\* One iteration of "for c in chunks" (lines 107-111).
BudgetStep ==
  /\ pc = "budget"
  /\ idx <= Len(chunks)
  /\ final_chunks' =
       IF OverBudget(source, chunks[idx])
       THEN final_chunks \o split_large_chunk_by_token(source, chunks[idx])
       ELSE Append(final_chunks, chunks[idx])
  /\ idx' = idx + 1
  /\ UNCHANGED <<source, pc, graph, current_function, func_nodes, clusters,
                 full_code, branch, pieces, chunks>>

\* return final_chunks
Return ==
  /\ pc = "budget"
  /\ idx > Len(chunks)
  /\ pc' = "done"
  /\ UNCHANGED <<source, idx, graph, current_function, func_nodes, clusters,
                 full_code, branch, pieces, chunks, final_chunks>>

NextChunker ==
  \/ VisitStmt
  \/ ComputeClusters
  \/ ProcessCluster
  \/ HandleGlobal
  \/ BudgetStep
  \/ Return

\* ------------------------------------------------------------- pipelines
\* PolyglotPipeline.run and PythonVersionPipeline.run.  Of a chunk they read
\* only whether chunk.strip() is empty; what the translation, the linter and
\* the execution answer for chunk i is named by i.
VARIABLES
  p_mode,     \* "polyglot" | "pyversion": the pipeline that runs
  p_pc,       \* where run is
  p_chunks,   \* chunks = chunk_code(source): "blank" or "text" for each
  p_state,    \* polyglot: each future "queued", "running" or "done"
  p_future,   \* polyglot: what translate_chunk returned for each chunk
  p_raised,   \* the chunks whose translation, linting or execution raised
  p_taken,    \* polyglot: the futures the result iterator has yielded
  p_results,  \* results
  p_ret       \* the pair run returns

pvars == <<p_mode, p_pc, p_chunks, p_state, p_future, p_raised, p_taken,
           p_results, p_ret>>
vars == <<cvars, pvars>>

NoExec == [kind |-> "None", success |-> FALSE, of |-> 0]
ExecResult(i, ok) == [kind |-> "exec", success |-> ok, of |-> i]
\* {"code": "", "exec": None}
BlankResult == [code |-> <<"", 0>>, exec |-> NoExec]
\* {"code": linted, "exec": exec_result}
DoneResult(i) == [code |-> <<"translated", i>>, exec |-> ExecResult(i, TRUE)]
\* {"code": "# Failed to ... chunk ...", "exec": {"success": False, ...}}
FailedResult(i) == [code |-> <<"failed", i>>, exec |-> ExecResult(i, FALSE)]
NoResult == [code |-> <<"", 0>>, exec |-> [kind |-> "pending", success |-> FALSE, of |-> 0]]
NoReturn == [full_code |-> <<>>, execs |-> <<>>]

ChunkKinds == {"blank", "text"}
ChunkSeqs == UNION {[1..k -> ChunkKinds] : k \in 1..MaxChunks}

PipelineIdle ==
  /\ p_mode = "none"
  /\ p_pc = "idle"
  /\ p_chunks = <<>>
  /\ p_state = <<>>
  /\ p_future = <<>>
  /\ p_raised = {}
  /\ p_taken = <<>>
  /\ p_results = <<>>
  /\ p_ret = NoReturn

ChunkerIdle ==
  /\ source = [stmts |-> <<>>, trail |-> <<>>]
  /\ pc = "idle"
  /\ idx = 1
  /\ graph = [nodes |-> {}, edges |-> {}]
  /\ current_function = None
  /\ func_nodes = <<>>
  /\ clusters = <<>>
  /\ full_code = <<E>>
  /\ branch = "none"
  /\ pieces = <<>>
  /\ chunks = <<>>
  /\ final_chunks = <<>>

\* run has called chunk_code; executor.map has submitted every chunk.
InitPipeline ==
  /\ ChunkerIdle
  /\ p_mode \in {"polyglot", "pyversion"}
  /\ p_pc = "run"
  /\ p_chunks \in ChunkSeqs
  /\ p_state = [i \in DOMAIN p_chunks |-> "queued"]
  /\ p_future = [i \in DOMAIN p_chunks |-> NoResult]
  /\ p_raised = {}
  /\ p_taken = <<>>
  /\ p_results = <<>>
  /\ p_ret = NoReturn

Running == {i \in DOMAIN p_state : p_state[i] = "running"}
Queued == {i \in DOMAIN p_state : p_state[i] = "queued"}

\* A worker of the pool takes the next work item of the queue; the pool has
\* max_workers threads.
WorkerStart ==
  /\ p_mode = "polyglot" /\ p_pc = "run"
  /\ Queued # {}
  /\ Cardinality(Running) < MAX_WORKERS
  /\ LET i == CHOOSE x \in Queued : \A y \in Queued : x <= y
     IN p_state' = [p_state EXCEPT ![i] = "running"]
  /\ UNCHANGED <<cvars, p_mode, p_pc, p_chunks, p_future, p_raised, p_taken,
                 p_results, p_ret>>

\* translate_chunk(chunk) returns in a worker: a blank chunk, a chunk that
\* went through, or a chunk for which chain.run, validate_and_fix or
\* execute_code raised.
WorkerFinish ==
  /\ p_mode = "polyglot" /\ p_pc = "run"
  /\ \E i \in Running :
       /\ p_state' = [p_state EXCEPT ![i] = "done"]
       /\ \/ /\ p_chunks[i] = "blank"
             /\ p_future' = [p_future EXCEPT ![i] = BlankResult]
             /\ UNCHANGED p_raised
          \/ /\ p_chunks[i] = "text"
             /\ p_future' = [p_future EXCEPT ![i] = DoneResult(i)]
             /\ UNCHANGED p_raised
          \/ /\ p_chunks[i] = "text"
             /\ p_future' = [p_future EXCEPT ![i] = FailedResult(i)]
             /\ p_raised' = p_raised \cup {i}
  /\ UNCHANGED <<cvars, p_mode, p_pc, p_chunks, p_taken, p_results, p_ret>>

\* A result iterator that yields whichever future is done.
NextFuturesAsCompleted(taken, n) == (1..n) \ {taken[k] : k \in DOMAIN taken}

\* The futures the iterator of executor.map yields next: the first not taken.
NextFutures(taken, n) == IF Len(taken) < n THEN {Len(taken) + 1} ELSE {}

\* list(executor.map(...)) takes the next result, waiting for its future.
Collect ==
  /\ p_mode = "polyglot" /\ p_pc = "run"
  /\ \E i \in NextFutures(p_taken, Len(p_chunks)) :
       /\ p_state[i] = "done"
       /\ p_taken' = Append(p_taken, i)
       /\ p_results' = Append(p_results, p_future[i])
  /\ UNCHANGED <<cvars, p_mode, p_pc, p_chunks, p_state, p_future, p_raised, p_ret>>

\* One iteration of PythonVersionPipeline.run's "for chunk in chunks".
SequentialStep ==
  /\ p_mode = "pyversion" /\ p_pc = "run"
  /\ Len(p_results) < Len(p_chunks)
  /\ LET i == Len(p_results) + 1
     IN \/ /\ p_chunks[i] = "blank"
           /\ p_results' = Append(p_results, BlankResult)
           /\ UNCHANGED p_raised
        \/ /\ p_chunks[i] = "text"
           /\ p_results' = Append(p_results, DoneResult(i))
           /\ UNCHANGED p_raised
        \/ /\ p_chunks[i] = "text"
           /\ p_results' = Append(p_results, FailedResult(i))
           /\ p_raised' = p_raised \cup {i}
  /\ UNCHANGED <<cvars, p_mode, p_pc, p_chunks, p_state, p_future, p_taken, p_ret>>

\* full_code = "\n\n".join(r["code"] ...); return full_code, [r["exec"] ...]
\* The joined code is kept as the sequence of its parts.
PipelineReturn ==
  /\ p_pc = "run"
  /\ Len(p_results) = Len(p_chunks)
  /\ p_ret' = [full_code |-> [k \in DOMAIN p_results |-> p_results[k].code],
               execs |-> [k \in DOMAIN p_results |-> p_results[k].exec]]
  /\ p_pc' = "returned"
  /\ UNCHANGED <<cvars, p_mode, p_chunks, p_state, p_future, p_raised, p_taken,
                 p_results>>

NextPipeline ==
  \/ WorkerStart
  \/ WorkerFinish
  \/ Collect
  \/ SequentialStep
  \/ PipelineReturn

\* ------------------------------------------------------ the specifications
Init == InitChunker /\ PipelineIdle
Next == NextChunker /\ UNCHANGED pvars
\* chunk_code on every source of Sources
Spec == Init /\ [][Next]_vars
\* the two pipelines on every chunk sequence of ChunkSeqs
SpecPipeline == InitPipeline /\ [][NextPipeline]_vars

\* ================================================================ claims
Budget == MAX_TOKENS * APPROX_CHARS_PER_TOKEN

StmtIdx(src) == 1..Len(src.stmts)
FuncIdx(src) == {d \in StmtIdx(src) : src.stmts[d].kind = "func"}
OtherIdx(src) == StmtIdx(src) \ FuncIdx(src)
\* The names of the top-level functions.
TopNames(src) == {src.stmts[d].name : d \in FuncIdx(src)}

GraphBuilt == pc \in {"clusters", "budget", "done"}

\* The callees of the calls by simple name that occur in toks, nested
\* definitions included, and the names of the definitions nested in toks.
RECURSIVE CallsIn(_, _), DefsIn(_, _)
CallsIn(toks, i) ==
  IF i > Len(toks) THEN {}
  ELSE (IF toks[i].t = "call" THEN {toks[i].id} ELSE {})
         \cup CallsIn(toks[i].body, 1) \cup CallsIn(toks, i + 1)
DefsIn(toks, i) ==
  IF i > Len(toks) THEN {}
  ELSE (IF toks[i].t = "def" THEN {toks[i].id} ELSE {})
         \cup DefsIn(toks[i].body, 1) \cup DefsIn(toks, i + 1)

\* (A, B): a call of the simple name B occurs inside top-level function A.
TextualEdges(src) ==
  UNION {{<<src.stmts[d].name, callee>> : callee \in CallsIn(src.stmts[d].body, 1)} :
           d \in FuncIdx(src)}

ClusterSet == {clusters[i] : i \in DOMAIN clusters}

\* The lines of a chunk sequence, chunk after chunk.
RECURSIVE Flatten(_, _)
Flatten(cs, k) == IF k = 0 THEN <<>> ELSE Flatten(cs, k - 1) \o SplitLines(cs[k])

IsSourceLine(line) == line[1] # 0
Before(l1, l2) == l1[1] < l2[1] \/ (l1[1] = l2[1] /\ l1[2] < l2[2])
InSourceOrder(c) ==
  LET sl == SelectSeq(c, IsSourceLine)
  IN \A i \in 1..(Len(sl) - 1) : Before(sl[i], sl[i + 1])

\* ---- C1
\* C1: in the sequence chunk_code returns, every chunk of more than one line
\* has at most max_tokens * approx_chars_per_token characters; only a chunk of
\* a single line may be longer.
C1_MultiLineChunksWithinBudget ==
  pc = "done" =>
    \A j \in DOMAIN final_chunks :
      Len(SplitLines(final_chunks[j])) > 1 => CharLen(source, final_chunks[j]) <= Budget

\* The budget splitter has cut a chunk and packed two lines into a sub-chunk.
C1_Witness ==
  /\ pc = "done"
  /\ \E i \in DOMAIN chunks : OverBudget(source, chunks[i])
  /\ \E j \in DOMAIN final_chunks :
       /\ Len(final_chunks[j]) = 2
       /\ CharLen(source, final_chunks[j]) = Budget - 1

\* ---- C2
\* C2 as stated: the clusters partition the set of top-level function names,
\* their union being exactly that set.
C2_ClustersPartitionFunctionNames ==
  GraphBuilt =>
    /\ \A i, j \in DOMAIN clusters : i # j => clusters[i] \cap clusters[j] = {}
    /\ UNION ClusterSet = TopNames(source)

\* C2 amended: the clusters are pairwise disjoint, every top-level function
\* name is in exactly one of them, and their union is the node set of the
\* graph, which holds the top-level function names and may hold more (callee
\* names that are no top-level function, names of nested functions).
C2_ClustersPartitionGraphNodes ==
  GraphBuilt =>
    /\ \A i, j \in DOMAIN clusters : i # j => clusters[i] \cap clusters[j] = {}
    /\ \A nm \in TopNames(source) :
         Cardinality({i \in DOMAIN clusters : nm \in clusters[i]}) = 1
    /\ UNION ClusterSet = graph.nodes
    /\ TopNames(source) \subseteq graph.nodes

\* Two functions that call each other share a cluster, and a callee that is
\* no top-level function has a cluster too.
C2_Witness ==
  /\ GraphBuilt
  /\ \E i \in DOMAIN clusters : Cardinality(clusters[i]) = 2
  /\ TopNames(source) = {"a", "b"}

\* ---- C3
\* C3: (A, B) is an edge of the call graph if and only if a call of the simple
\* name B occurs inside the body of top-level function A, calls inside a
\* function nested in A included; a call outside A's body gives no edge.
C3_EdgesAreTextualCalls == GraphBuilt => graph.edges = TextualEdges(source)

\* ---- C4
\* C4: in every chunk (of chunks and of the returned sequence) the source
\* lines are in the order they have in the source.
C4_ChunkLinesInSourceOrder ==
  /\ \A i \in DOMAIN chunks : InSourceOrder(chunks[i])
  /\ \A j \in DOMAIN final_chunks : InSourceOrder(final_chunks[j])

\* ---- C5
\* The whole source is within the budgets: at most max_lines lines and at most
\* the character budget (so no cluster is over 100 lines).
FitsAllBudgets(src) ==
  /\ Len(SplitLines(SourceText(src))) <= MAX_LINES
  /\ CharLen(src, SourceText(src)) <= Budget

SingleUnit(src) ==
  \/ src.stmts = <<>>
  \/ /\ Len(src.stmts) = 1
     /\ COMMENT \notin {src.trail[i] : i \in DOMAIN src.trail}
     /\ \/ src.stmts[1].kind = "other"
        \/ /\ DefsIn(src.stmts[1].body, 1) = {}
           /\ CallsIn(src.stmts[1].body, 1) \subseteq {src.stmts[1].name}

C6_AtLeastOneChunk ==
  pc = "done" =>
    /\ Len(final_chunks) >= 1
    /\ Strip(SourceText(source)) = <<E>> => final_chunks = <<(<<E>>)>>

\* A white-space source has been chunked by the fallback.
C6_Witness ==
  /\ pc = "done"
  /\ source.trail = <<WS>>
  /\ source.stmts = <<>>
  /\ final_chunks = <<(<<E>>)>>

\* ---- C8
\* Only functions, with distinct names, none calling another top-level
\* function, each within max_lines lines and the character budget.
IndependentFunctions(src) ==
  /\ src.stmts # <<>>
  /\ OtherIdx(src) = {}
  /\ Cardinality(TopNames(src)) = Len(src.stmts)
  /\ \A d \in FuncIdx(src) :
       /\ CallsIn(src.stmts[d].body, 1) \cap (TopNames(src) \ {src.stmts[d].name}) = {}
       /\ NLines(src.stmts[d].layout) <= MAX_LINES
       /\ CharLen(src, GetSourceSegment(src, d)) <= Budget

OneChunkPerFunction ==
  /\ Len(final_chunks) = Len(source.stmts)
  /\ \A d \in FuncIdx(source) :
       \E j \in DOMAIN final_chunks : final_chunks[j] = GetSourceSegment(source, d)

\* C8 as stated: N independent functions within the budgets give exactly N
\* chunks, one per function, each the function's source text.
C8_OneChunkPerIndependentFunction ==
  (pc = "done" /\ IndependentFunctions(source)) => OneChunkPerFunction

\* No function calls a simple name that is no top-level function, and none
\* defines a nested function.
NoForeignNode(src) ==
  \A d \in FuncIdx(src) :
    /\ CallsIn(src.stmts[d].body, 1) \subseteq TopNames(src)
    /\ DefsIn(src.stmts[d].body, 1) = {}

\* C8 amended: the same for N independent functions that call no simple name
\* other than a top-level function's and define no nested function (each such
\* name is a node of the graph and gives an empty chunk of its own).
C8_OneChunkPerFunctionWithoutForeignNodes ==
  (pc = "done" /\ IndependentFunctions(source) /\ NoForeignNode(source)) =>
    OneChunkPerFunction

\* Two independent functions, one of them recursive, have been chunked.
C8_Witness ==
  /\ pc = "done"
  /\ IndependentFunctions(source)
  /\ NoForeignNode(source)
  /\ Len(source.stmts) = 2
  /\ \E d \in FuncIdx(source) : source.stmts[d].body # <<>>
  /\ Len(final_chunks) = 2

\* ---- C9
\* The lines of the module-level statements 1..d, in source order.
RECURSIVE ModuleLevelLines(_, _)
ModuleLevelLines(src, d) ==
  IF d = 0 THEN <<>>
  ELSE ModuleLevelLines(src, d - 1)
         \o (IF src.stmts[d].kind = "other" THEN GetSourceSegment(src, d) ELSE <<>>)

IsModuleLevelLine(line) ==
  line[1] # 0 /\ source.stmts[line[1]].kind = "other"

\* C9: when the source has a module-level statement, the returned sequence
\* starts with the module-level chunk or with its budget-split sub-chunks: the
\* lines of all module-level statements, in source order, before any chunk of
\* a cluster.
C9_ModuleLevelChunkFirst ==
  (pc = "done" /\ OtherIdx(source) # {}) =>
    \E k \in DOMAIN final_chunks :
      /\ SelectSeq(Flatten(final_chunks, k), IsSourceLine)
           = ModuleLevelLines(source, Len(source.stmts))
      /\ \A j \in (k + 1)..Len(final_chunks) :
           SelectSeq(final_chunks[j], IsModuleLevelLine) = <<>>

\* A module-level chunk over the budget has been split in place, before the
\* chunk of a function.
C9_Witness ==
  /\ pc = "done"
  /\ OtherIdx(source) # {}
  /\ FuncIdx(source) # {}
  /\ OverBudget(source, chunks[1])
  /\ IsModuleLevelLine(chunks[1][1])
  /\ Len(final_chunks) >= 3

\* ---- C10
\* C10: a cluster is replaced by the structural-split pieces of its members if
\* and only if its rendered text (full_code, trimmed) has more than 100 lines.
C10_SplitIffRenderedOver100 ==
  branch # "none" =>
    (branch = "split" <=> Len(SplitLines(Strip(full_code))) > CLUSTER_LINES)

\* ---- C7
\* C7: whatever the order in which the workers start and finish and whichever
\* chunks raise, run returns one execution result per chunk, the i-th for the
\* i-th chunk (None for a blank chunk, success = false for a chunk that
\* raised), and the joined code holds the outputs in chunk order.
C7_ResultsInChunkOrder ==
  p_pc = "returned" =>
    /\ Len(p_ret.execs) = Len(p_chunks)
    /\ Len(p_ret.full_code) = Len(p_chunks)
    /\ \A i \in DOMAIN p_chunks :
         /\ p_chunks[i] = "blank" =>
              (p_ret.execs[i] = NoExec /\ p_ret.full_code[i] = BlankResult.code)
         /\ i \in p_raised =>
              (p_ret.execs[i] = ExecResult(i, FALSE)
                 /\ p_ret.full_code[i] = FailedResult(i).code)
         /\ (p_chunks[i] = "text" /\ i \notin p_raised) =>
              (p_ret.execs[i] = ExecResult(i, TRUE)
                 /\ p_ret.full_code[i] = DoneResult(i).code)

\* The pool has returned for more chunks than it has workers, with a blank
\* chunk, a chunk that raised and a later chunk that went through.
C7_Witness ==
  /\ p_pc = "returned"
  /\ p_mode = "polyglot"
  /\ Len(p_chunks) > MAX_WORKERS
  /\ \E i, j, k \in DOMAIN p_chunks :
       /\ p_chunks[i] = "blank"
       /\ j \in p_raised
       /\ j < k /\ p_chunks[k] = "text" /\ k \notin p_raised

\* ---- C11
\* C11: of a function of more than max_lines lines, every piece returned by
\* split_large_function has at least one line, and every piece but the last
\* has at least max_lines lines and ends at a line that starts with one of the
\* keywords; a function of at most max_lines lines comes back unchanged as
\* one piece.
C11_PiecesOfSplitLargeFunction ==
  \A c \in DOMAIN pieces :
    LET d == pieces[c].d
        out == pieces[c].out
    IN IF NLines(source.stmts[d].layout) > MAX_LINES
       THEN /\ \A k \in DOMAIN out : Len(SplitLines(out[k])) >= 1
            /\ \A k \in 1..(Len(out) - 1) :
                 /\ Len(SplitLines(out[k])) >= MAX_LINES
                 /\ IsKeywordLine(source, Last(SplitLines(out[k])))
       ELSE out = <<GetSourceSegment(source, d)>>

\* In one cluster split_large_function has cut a function whose keyword line
\* follows a flush directly, and has returned a short function unchanged.
C11_Witness ==
  /\ branch = "split"
  /\ \E c \in DOMAIN pieces :
       /\ source.stmts[pieces[c].d].layout = "F101"
       /\ Len(pieces[c].out) = 2
       /\ Len(pieces[c].out[1]) = MAX_LINES
  /\ \E c \in DOMAIN pieces :
       /\ NLines(source.stmts[pieces[c].d].layout) <= MAX_LINES
       /\ Len(pieces[c].out) = 1

\* ---- C12
\* C12: every line of every top-level function declaration, declarations that
\* share a name included, occurs exactly once in the chunks chunk_code
\* returns.
C12_EveryFunctionLineOnce ==
  pc = "done" =>
    LET flat == Flatten(final_chunks, Len(final_chunks))
    IN \A d \in FuncIdx(source) :
         \A n \in 1..NLines(source.stmts[d].layout) :
           Cardinality({i \in DOMAIN flat : flat[i] = <<d, n>>}) = 1

====
